---- MODULE Spec2Model ----
(***************************************************************************)
(* Inventory transaction engine of ARI-Dashboard: the item store           *)
(* (itemsRepository) with its id allocator and its live subscription, the  *)
(* checkout service, the return service, the CSV import dialog, the       *)
(* location picker of the new-item form and the item detail panel, on top  *)
(* of a document store with optimistic transactions (reads are validated   *)
(* at commit; a conflicting commit re-runs the transaction body).          *)
(***************************************************************************)
EXTENDS Integers, Sequences, FiniteSets, TLC

(* ------------------------------ bounds -------------------------------- *)
MaxStock == 2
MaxQty == 2
MaxOps == 3
MaxCount == 2
MaxRows == 2
MaxLocs == 1

(* The store's default number of attempts of one transaction. *)
MaxAttempts == 5

Users == {"u1", "u2"}
Calls == {1, 2}
Creators == {"k1", "k2", "k3"}
(* the slot of the dialogs, which make one create at a time *)
StoreCreators == {"k1"}
Names == {<<"A">>, <<" ">>}

(* the names of the id checks: one of them ends in a digit *)
IdNames == {<<"A">>, <<" ">>, <<>>, <<"a", "1">>}

(* the suffixes the allocator may hand out: the first ones of a fresh      *)
(* collection, and the first two-digit suffix that ends in 1               *)
Suffixes == (1..MaxCount) \cup {11}

(* the name handleImportAll gives a row without one: 'Untitled Item' *)
UntitledItem == <<"U", "n", "t", "i", "t", "l", "e", "d", " ", "I", "t", "e", "m">>

None == <<>>
Some(v) == <<v>>
Val(o) == o[1]

VARIABLES items, ledger, count, calls, creators, net, H0, nOps, audit,
          alloc, updated, sub, csv, picker, form, panel

vars == <<items, ledger, count, calls, creators, net, H0, nOps, audit,
          alloc, updated, sub, csv, picker, form, panel>>

(* ------------------------- pure functions ----------------------------- *)
Lower(ch) ==
    IF ch = "A" THEN "a" ELSE IF ch = "U" THEN "u" ELSE IF ch = "I" THEN "i"
    ELSE IF ch = "C" THEN "c" ELSE IF ch = "R" THEN "r" ELSE ch

IsAlnum(ch) == ch \in {"a", "d", "e", "i", "l", "m", "n", "t", "u", "0", "1", "2"}

RECURSIVE Join(_)
Join(s) == IF s = <<>> THEN "" ELSE Head(s) \o Join(Tail(s))

LowerSeq(s) == [k \in 1..Len(s) |-> Lower(s[k])]

RECURSIVE trimStart(_)
trimStart(s) == IF s # <<>> /\ Head(s) = " " THEN trimStart(Tail(s)) ELSE s

RECURSIVE trimEnd(_)
trimEnd(s) ==
    IF s # <<>> /\ s[Len(s)] = " " THEN trimEnd(SubSeq(s, 1, Len(s) - 1)) ELSE s

(* String.prototype.trim: leading and trailing white space removed *)
trim(s) == trimEnd(trimStart(s))

buildItemDocId(name, n) == Join(SelectSeq(LowerSeq(name), IsAlnum)) \o ToString(n)

DocIds == {buildItemDocId(nm, k) : nm \in {x \in Names : trim(x) # <<>>}, k \in 1..MaxCount}

(* every id a create of the model can produce *)
AllIds ==
    {buildItemDocId(trim(nm), k) :
        nm \in {x \in Names \cup IdNames \cup {UntitledItem} : trim(x) # <<>>},
        k \in Suffixes}

(* a create/update that stores the supplied number unclamped *)
Max0_unclamped(v) == v

Max0(v) == IF v < 0 THEN 0 ELSE v

(* the number NaN: neither absent nor an integer *)
NaN == <<0, 0>>

(* Math.max(0, v) on an optional number: undefined stays undefined *)
ClampField(oh) ==
    IF oh = None THEN None ELSE IF oh = NaN THEN NaN ELSE Some(Max0(Val(oh)))

(* on_hand ?? 0 *)
OnHandOr0(doc) == IF doc.on_hand = None THEN 0 ELSE Val(doc.on_hand)

(* a transform that overwrites the field instead of adding to it *)
Increment_overwrite(field, n) == Some(n)

(* increment(n) applied by the store to a numeric field at commit time *)
Increment(field, n) == IF field = None THEN Some(n) ELSE Some(Val(field) + n)

IdleCall == [pc |-> "idle", op |-> "none", uid |-> "u1", itemId |-> "a1", qty |-> 0,
             itemStale |-> FALSE, ledStale |-> FALSE, ledExists |-> FALSE,
             full |-> FALSE, attempts |-> 0, result |-> "none"]

IdleCreator == [pc |-> "idle", name |-> <<"A">>, on_hand |-> None, location |-> <<>>, cur |-> 0,
                stale |-> FALSE, attempts |-> 0, next |-> 0, result |-> "none"]

(* LocationPicker's cabinet, row and col as the dialog opens *)
NewPicker == [cabinet |-> 1, row |-> 1, col |-> 1]

(* no subscription to the item collection has been opened *)
NoSub == [state |-> "none", items |-> None, loading |-> TRUE, n |-> 0]

(* the import dialog before a file is chosen *)
NoImport == [phase |-> "idle", rows |-> <<>>, validRows |-> <<>>, errorRows |-> <<>>,
             queue |-> <<>>, totalToImport |-> 0, imported |-> 0, count |-> 0,
             mode |-> "none", V |-> 0, E |-> 0, k |-> "k1", sent |-> <<>>,
             results |-> <<>>, reported |-> None]

(* ------------------------------- Init --------------------------------- *)
(* one item, created as the first of the collection, with h units on hand  *)
Stores(h) ==
    /\ items = [i \in AllIds |-> IF i = buildItemDocId(<<"A">>, 1)
                                   THEN Some([name |-> <<"A">>, on_hand |-> Some(h),
                                              location |-> <<>>])
                                   ELSE None]
    /\ ledger = [u \in Users |-> [i \in DocIds |-> None]]
    /\ count = Some(1)
    /\ calls = [c \in Calls |-> IdleCall]
    /\ creators = [k \in Creators |-> IdleCreator]
    /\ net = [u \in Users |-> [i \in DocIds |-> 0]]
    /\ nOps = 0
    /\ alloc = [prior |-> 1, issued |-> <<>>, ids |-> <<buildItemDocId(<<"A">>, 1)>>]
    /\ updated = "none"
    /\ sub = NoSub
    /\ csv = NoImport
    /\ picker = NewPicker
    /\ form = <<>>
    /\ panel = None

Init ==
    \E h \in 0..MaxStock :
        /\ Stores(h)
        /\ H0 = [i \in DocIds |-> 0]
        /\ audit = FALSE

(* the same stores under audit: the initial stock H0 and the finished      *)
(* calls' arguments and outcomes stay on record                            *)
InitTx ==
    \E h \in 0..MaxStock :
        /\ Stores(h)
        /\ H0 = [i \in DocIds |-> IF i = buildItemDocId(<<"A">>, 1) THEN h ELSE 0]
        /\ audit = TRUE

(* ------------------ the store's transaction bookkeeping --------------- *)
(* A transaction that has read a document and not yet committed loses its  *)
(* commit when that document is written by someone else: the commit's      *)
(* precondition on the read version fails.                                 *)
HoldsItemRead(cl, i) ==
    /\ cl.op = "checkout"
    /\ cl.pc \in {"getLedger", "commit"}
    /\ cl.itemId = i

HoldsLedgerRead(cl, u, i) ==
    /\ cl.pc = "commit"
    /\ cl.uid = u
    /\ cl.itemId = i

(* a store that lets a commit through although the item it read changed *)
MarkItem_noConflict(cs, i) == cs

MarkItem(cs, i) ==
    [c \in Calls |-> IF HoldsItemRead(cs[c], i)
                       THEN [cs[c] EXCEPT !.itemStale = TRUE]
                       ELSE cs[c]]

MarkLedger(cs, u, i) ==
    [c \in Calls |-> IF HoldsLedgerRead(cs[c], u, i)
                       THEN [cs[c] EXCEPT !.ledStale = TRUE]
                       ELSE cs[c]]

(* the call has returned to its caller: under audit its outcome and the    *)
(* arguments it was called with stay on record, otherwise nothing remains  *)
Finish(cl, res) ==
    IF audit
      THEN [cl EXCEPT !.pc = "done", !.result = res, !.itemStale = FALSE,
                      !.ledStale = FALSE, !.ledExists = FALSE, !.full = FALSE]
      ELSE IdleCall

(* the store re-runs the body, up to MaxAttempts attempts in all *)
Retry(cl, firstPc) ==
    IF cl.attempts < MaxAttempts
      THEN [cl EXCEPT !.pc = firstPc, !.attempts = cl.attempts + 1,
                      !.itemStale = FALSE, !.ledStale = FALSE,
                      !.ledExists = FALSE, !.full = FALSE]
      ELSE Finish(cl, "Aborted")

Free(c) == calls[c].pc \in {"idle", "done"}

(* call slots are interchangeable: a new call takes the first slot never   *)
(* used, or else the first slot whose call has returned                    *)
FirstFree(c) ==
    IF \E d \in Calls : calls[d].pc = "idle"
      THEN calls[c].pc = "idle" /\ \A d \in Calls : (calls[d].pc = "idle" => d >= c)
      ELSE calls[c].pc = "done" /\ \A d \in Calls : (calls[d].pc = "done" => d >= c)

NewCall(op, u, i, q, firstPc) ==
    [IdleCall EXCEPT !.pc = firstPc, !.op = op, !.uid = u, !.itemId = i,
                     !.qty = q, !.attempts = 1]

(* ----------------------------- checkoutItem --------------------------- *)
(* an availability test that lets one unit too many through *)
GetItemStep_offByOne(cl) ==
    IF items[cl.itemId] = None
      THEN Finish(cl, "ItemNotFound")
      ELSE IF OnHandOr0(Val(items[cl.itemId])) + 1 < cl.qty
             THEN Finish(cl, "InsufficientStock")
             ELSE [cl EXCEPT !.pc = "getLedger"]

(* a body that takes a missing item for an item without stock *)
GetItemStep_missingAsEmpty(cl) ==
    IF items[cl.itemId] = None \/ OnHandOr0(Val(items[cl.itemId])) < cl.qty
      THEN Finish(cl, "InsufficientStock")
      ELSE [cl EXCEPT !.pc = "getLedger"]

(* transaction.get(itemRef), the existence test and the availability test *)
GetItemStep(cl) ==
    IF items[cl.itemId] = None
      THEN Finish(cl, "ItemNotFound")
      ELSE IF OnHandOr0(Val(items[cl.itemId])) < cl.qty
             THEN Finish(cl, "InsufficientStock")
             ELSE [cl EXCEPT !.pc = "getLedger"]

(* an entry that runs the transaction whatever the quantity *)
checkoutItem_noQtyTest(c, u, i, q) ==
    /\ FirstFree(c)
    /\ nOps < MaxOps
    /\ nOps' = nOps + 1
    /\ calls' = [calls EXCEPT ![c] = GetItemStep(NewCall("checkout", u, i, q, "getItem"))]
    /\ UNCHANGED <<items, ledger, count, creators, net, H0, audit, alloc, updated, sub, csv, picker, form, panel>>

(* entry: the qty guard, then runTransaction runs the body up to its first *)
(* read (nothing shared is touched before it)                              *)
checkoutItem(c, u, i, q) ==
    /\ FirstFree(c)
    /\ nOps < MaxOps
    /\ nOps' = nOps + 1
    /\ calls' = [calls EXCEPT ![c] =
                   IF q <= 0
                     THEN Finish([NewCall("checkout", u, i, q, "done") EXCEPT !.attempts = 0], "BadQty")
                     ELSE GetItemStep(NewCall("checkout", u, i, q, "getItem"))]
    /\ UNCHANGED <<items, ledger, count, creators, net, H0, audit, alloc, updated, sub, csv, picker, form, panel>>

(* the body re-run after a failed commit: its first read *)
CheckoutGetItem(c) ==
    LET cl == calls[c] IN
    /\ cl.op = "checkout"
    /\ cl.pc = "getItem"
    /\ calls' = [calls EXCEPT ![c] = GetItemStep(cl)]
    /\ UNCHANGED <<items, ledger, count, creators, net, H0, nOps, audit, alloc, updated, sub, csv, picker, form, panel>>

(* transaction.get(checkedOutRef) and the buffered writes *)
CheckoutGetLedger(c) ==
    LET cl == calls[c] IN
    /\ cl.op = "checkout"
    /\ cl.pc = "getLedger"
    /\ calls' = [calls EXCEPT ![c] =
                   [cl EXCEPT !.pc = "commit",
                              !.ledExists = (ledger[cl.uid][cl.itemId] # None)]]
    /\ UNCHANGED <<items, ledger, count, creators, net, H0, nOps, audit, alloc, updated, sub, csv, picker, form, panel>>

(* a checkout that always set()s the entry, dropping what was there *)
CheckoutLedgerWrite_overwrite(old, ledExists, q) == Some(q)

(* the ledger write of a checkout: update(qty: increment(qty)) or set(qty) *)
CheckoutLedgerWrite(old, ledExists, q) ==
    IF ledExists THEN Increment(old, q) ELSE Some(q)

(* a checkout that writes the ledger and leaves the stock alone *)
CheckoutItemWrite_noDecrement(doc, q) == doc

(* the item write of a checkout: update(on_hand: increment(-qty)) *)
CheckoutItemWrite(doc, q) == [doc EXCEPT !.on_hand = Increment(doc.on_hand, 0 - q)]

(* commit of the buffered writes, or re-run when a read went stale *)
CheckoutCommit(c) ==
    LET cl == calls[c]
        u == cl.uid
        i == cl.itemId
    IN
    /\ cl.op = "checkout"
    /\ cl.pc = "commit"
    /\ IF cl.itemStale \/ cl.ledStale
         THEN /\ calls' = [calls EXCEPT ![c] = Retry(cl, "getItem")]
              /\ UNCHANGED <<items, ledger, net>>
         ELSE /\ ledger' = [ledger EXCEPT ![u][i] =
                              CheckoutLedgerWrite(ledger[u][i], cl.ledExists, cl.qty)]
              /\ items' = [items EXCEPT ![i] = Some(CheckoutItemWrite(Val(items[i]), cl.qty))]
              /\ net' = [net EXCEPT ![u][i] = net[u][i] + cl.qty]
              /\ calls' = [MarkLedger(MarkItem(calls, i), u, i) EXCEPT ![c] = Finish(cl, "ok")]
    /\ UNCHANGED <<count, creators, H0, nOps, audit, alloc, updated, sub, csv, picker, form, panel>>

(* ------------------------------ returnItem ---------------------------- *)
(* a body that never takes the delete branch *)
GetLedgerStep_neverFull(cl) ==
    LET led == ledger[cl.uid][cl.itemId] IN
    IF led = None
      THEN Finish(cl, "NoCheckedOutRecord")
      ELSE IF cl.qty > Val(led)
             THEN Finish(cl, "ExcessReturn")
             ELSE [cl EXCEPT !.pc = "commit", !.ledExists = TRUE, !.full = FALSE]

(* a body without the qty > currentQty test *)
GetLedgerStep_noExcessTest(cl) ==
    LET led == ledger[cl.uid][cl.itemId] IN
    IF led = None
      THEN Finish(cl, "NoCheckedOutRecord")
      ELSE [cl EXCEPT !.pc = "commit", !.ledExists = TRUE,
                      !.full = (cl.qty >= Val(led))]

(* transaction.get(checkedOutRef), the two precondition tests, the writes *)
GetLedgerStep(cl) ==
    LET led == ledger[cl.uid][cl.itemId] IN
    IF led = None
      THEN Finish(cl, "NoCheckedOutRecord")
      ELSE IF cl.qty > Val(led)
             THEN Finish(cl, "ExcessReturn")
             ELSE [cl EXCEPT !.pc = "commit", !.ledExists = TRUE,
                             !.full = (cl.qty = Val(led))]

(* entry: the qty guard, then runTransaction runs the body up to its read *)
returnItem(c, u, i, q) ==
    /\ FirstFree(c)
    /\ nOps < MaxOps
    /\ nOps' = nOps + 1
    /\ calls' = [calls EXCEPT ![c] =
                   IF q <= 0
                     THEN Finish([NewCall("return", u, i, q, "done") EXCEPT !.attempts = 0], "BadQty")
                     ELSE GetLedgerStep(NewCall("return", u, i, q, "getLedger"))]
    /\ UNCHANGED <<items, ledger, count, creators, net, H0, audit, alloc, updated, sub, csv, picker, form, panel>>

(* the body re-run after a failed commit *)
ReturnGetLedger(c) ==
    LET cl == calls[c] IN
    /\ cl.op = "return"
    /\ cl.pc = "getLedger"
    /\ calls' = [calls EXCEPT ![c] = GetLedgerStep(cl)]
    /\ UNCHANGED <<items, ledger, count, creators, net, H0, nOps, audit, alloc, updated, sub, csv, picker, form, panel>>

(* a return that decrements the entry even when nothing is left in it *)
ReturnLedgerWrite_neverDeletes(old, full, q) == Increment(old, 0 - q)

(* the ledger write of a return: delete, or update(qty: increment(-qty)) *)
ReturnLedgerWrite(old, full, q) ==
    IF full THEN None ELSE Increment(old, 0 - q)

(* a return that updates the ledger and does not restock *)
ReturnItemWrite_noRestock(doc, q) == doc

(* the item write of a return: update(on_hand: increment(qty)) *)
ReturnItemWrite(doc, q) == [doc EXCEPT !.on_hand = Increment(doc.on_hand, q)]

(* a commit that is not atomic: the ledger write goes through although    *)
(* the item update finds no document                                       *)
ReturnCommit_ledgerOnly(c) ==
    LET cl == calls[c]
        u == cl.uid
        i == cl.itemId
    IN
    /\ cl.op = "return"
    /\ cl.pc = "commit"
    /\ ledger' = [ledger EXCEPT ![u][i] = ReturnLedgerWrite(ledger[u][i], cl.full, cl.qty)]
    /\ calls' = [MarkLedger(calls, u, i) EXCEPT ![c] = Finish(cl, "ok")]
    /\ UNCHANGED <<items, net, count, creators, H0, nOps, audit, alloc, updated, sub, csv, picker, form, panel>>

(* a return that takes the item's entry away from every user *)
ReturnCommit_allUsers(c) ==
    LET cl == calls[c]
        u == cl.uid
        i == cl.itemId
    IN
    /\ cl.op = "return"
    /\ cl.pc = "commit"
    /\ IF cl.ledStale
         THEN /\ calls' = [calls EXCEPT ![c] = Retry(cl, "getLedger")]
              /\ UNCHANGED <<items, ledger, net>>
         ELSE IF items[i] = None
                THEN /\ calls' = [calls EXCEPT ![c] = Finish(cl, "ItemNotFound")]
                     /\ UNCHANGED <<items, ledger, net>>
                ELSE /\ ledger' = [v \in Users |->
                                     [ledger[v] EXCEPT ![i] =
                                        IF v = u
                                          THEN ReturnLedgerWrite(ledger[u][i], cl.full, cl.qty)
                                          ELSE None]]
                     /\ items' = [items EXCEPT ![i] = Some(ReturnItemWrite(Val(items[i]), cl.qty))]
                     /\ net' = [net EXCEPT ![u][i] = net[u][i] - cl.qty]
                     /\ calls' = [MarkLedger(MarkItem(calls, i), u, i) EXCEPT ![c] = Finish(cl, "ok")]
    /\ UNCHANGED <<count, creators, H0, nOps, audit, alloc, updated, sub, csv, picker, form, panel>>

(* commit of the buffered writes; update(itemRef) requires the item to     *)
(* exist, and a commit that fails on it writes nothing and is not re-run   *)
ReturnCommit(c) ==
    LET cl == calls[c]
        u == cl.uid
        i == cl.itemId
    IN
    /\ cl.op = "return"
    /\ cl.pc = "commit"
    /\ IF cl.ledStale
         THEN /\ calls' = [calls EXCEPT ![c] = Retry(cl, "getLedger")]
              /\ UNCHANGED <<items, ledger, net>>
         ELSE IF items[i] = None
                THEN /\ calls' = [calls EXCEPT ![c] = Finish(cl, "ItemNotFound")]
                     /\ UNCHANGED <<items, ledger, net>>
                ELSE /\ ledger' = [ledger EXCEPT ![u][i] =
                                     ReturnLedgerWrite(ledger[u][i], cl.full, cl.qty)]
                     /\ items' = [items EXCEPT ![i] = Some(ReturnItemWrite(Val(items[i]), cl.qty))]
                     /\ net' = [net EXCEPT ![u][i] = net[u][i] - cl.qty]
                     /\ calls' = [MarkLedger(MarkItem(calls, i), u, i) EXCEPT ![c] = Finish(cl, "ok")]
    /\ UNCHANGED <<count, creators, H0, nOps, audit, alloc, updated, sub, csv, picker, form, panel>>

(* ------------------------------ item store --------------------------- *)
CountOr0 == IF count = None THEN 0 ELSE Val(count)

InFlight == Cardinality({k \in Creators : creators[k].pc \in {"allocGet", "allocCommit"}})

KFree(k) == creators[k].pc \in {"idle", "done"}

(* createItem has returned: under audit the name, the suffix and the       *)
(* outcome stay on record                                                  *)
KFinish(kr, res) ==
    IF audit
      THEN [kr EXCEPT !.pc = "done", !.result = res, !.on_hand = None, !.location = <<>>,
                      !.cur = 0, !.stale = FALSE, !.attempts = 0]
      ELSE IdleCreator

(* createItem: the name test and the validated draft; the allocator is    *)
(* entered only while the next suffix is one of Suffixes                   *)
createItem(k, name, oh, loc) ==
    /\ KFree(k)
    /\ nOps < MaxOps
    /\ (CountOr0 + InFlight + 1) \in Suffixes
    /\ nOps' = nOps + 1
    /\ creators' = [creators EXCEPT ![k] =
                      IF trim(name) = <<>>
                        THEN KFinish([IdleCreator EXCEPT !.name = name], "NameRequired")
                        ELSE [IdleCreator EXCEPT !.pc = "allocGet", !.name = trim(name),
                                                 !.on_hand = ClampField(oh),
                                                 !.location = loc,
                                                 !.attempts = 1]]
    /\ UNCHANGED <<items, ledger, count, calls, net, H0, audit, alloc, updated, sub, picker, panel>>

(* NewItemModal.handleSubmit: the form's draft, with the locations picked, *)
(* goes to createItem; the form is cleared when the create has returned   *)
(* (here: with the call)                                                   *)
handleSubmit(k, name, oh) ==
    /\ createItem(k, name, oh, form)
    /\ form' = <<>>
    /\ UNCHANGED csv

(* getNextItemCount: transaction.get(countRef) *)
CreateAllocGet(k) ==
    /\ creators[k].pc = "allocGet"
    /\ creators' = [creators EXCEPT ![k] =
                      [@ EXCEPT !.pc = "allocCommit", !.cur = CountOr0, !.stale = FALSE]]
    /\ UNCHANGED <<items, ledger, count, calls, net, H0, nOps, audit, alloc, updated, sub, csv, picker, form, panel>>

(* an allocator whose commit goes through although the counter it read    *)
(* has been replaced                                                       *)
CreateAllocCommit_noConflict(k) ==
    LET kr == creators[k] IN
    /\ kr.pc = "allocCommit"
    /\ count' = Some(kr.cur + 1)
    /\ alloc' = [alloc EXCEPT !.issued = Append(@, kr.cur + 1)]
    /\ creators' = [creators EXCEPT ![k] = [kr EXCEPT !.pc = "setDoc", !.next = kr.cur + 1]]
    /\ UNCHANGED <<items, ledger, calls, net, H0, nOps, audit, updated, sub, csv, picker, form, panel>>

(* getNextItemCount: commit of set(countRef, {count: current + 1}), or re-run *)
CreateAllocCommit(k) ==
    LET kr == creators[k] IN
    /\ kr.pc = "allocCommit"
    /\ IF kr.stale
         THEN /\ creators' = [creators EXCEPT ![k] =
                                IF kr.attempts < MaxAttempts
                                  THEN [kr EXCEPT !.pc = "allocGet",
                                                  !.attempts = kr.attempts + 1]
                                  ELSE KFinish(kr, "Aborted")]
              /\ UNCHANGED <<count, alloc>>
         ELSE /\ count' = Some(kr.cur + 1)
              /\ alloc' = [alloc EXCEPT !.issued = Append(@, kr.cur + 1)]
              /\ creators' = [x \in Creators |->
                                IF x = k
                                  THEN [kr EXCEPT !.pc = "setDoc", !.next = kr.cur + 1]
                                  ELSE IF creators[x].pc = "allocCommit"
                                         THEN [creators[x] EXCEPT !.stale = TRUE]
                                         ELSE creators[x]]
    /\ UNCHANGED <<items, ledger, calls, net, H0, nOps, audit, updated, sub, csv, picker, form, panel>>

(* createItem: setDoc(doc(items, buildItemDocId(name, nextCount)), validatedDraft) *)
CreateSetDoc(k) ==
    LET kr == creators[k]
        docId == buildItemDocId(kr.name, kr.next)
        doc == Some([name |-> kr.name, on_hand |-> kr.on_hand, location |-> kr.location])
    IN
    /\ kr.pc = "setDoc"
    /\ items' = [items EXCEPT ![docId] = doc]
    /\ calls' = IF items[docId] = doc THEN calls ELSE MarkItem(calls, docId)
    /\ creators' = [creators EXCEPT ![k] = KFinish(kr, "ok")]
    /\ alloc' = [alloc EXCEPT !.ids = Append(@, docId)]
    /\ UNCHANGED <<ledger, count, net, H0, nOps, audit, updated, sub, csv, picker, form, panel>>

(* a create that gives its suffix back when the item write fails *)
CreateSetDocFails_rollback(k) ==
    /\ creators[k].pc = "setDoc"
    /\ creators' = [creators EXCEPT ![k] = KFinish(creators[k], "StoreUnavailable")]
    /\ count' = Some(CountOr0 - 1)
    /\ UNCHANGED <<items, ledger, calls, net, H0, nOps, audit, alloc, updated, sub, csv, picker, form, panel>>

(* createItem: setDoc rejects (the store is unreachable); the suffix was   *)
(* taken, no document is written                                           *)
CreateSetDocFails(k) ==
    /\ creators[k].pc = "setDoc"
    /\ creators' = [creators EXCEPT ![k] = KFinish(creators[k], "StoreUnavailable")]
    /\ UNCHANGED <<items, ledger, count, calls, net, H0, nOps, audit, alloc, updated, sub, csv, picker, form, panel>>

(* the document updateItem writes: the patch's fields over the stored ones *)
ApplyPatch(doc, pname, poh, ploc) ==
    [name |-> IF pname = None THEN doc.name ELSE Val(pname),
     on_hand |-> IF poh = None THEN doc.on_hand ELSE ClampField(poh),
     location |-> IF ploc = None THEN doc.location ELSE Val(ploc)]

(* an update without the name test *)
updateItem_noNameTest(id, pname, poh, ploc) ==
    /\ nOps < MaxOps
    /\ nOps' = nOps + 1
    /\ IF items[id] = None
         THEN UNCHANGED <<items, calls>>
         ELSE LET doc == Some(ApplyPatch(Val(items[id]), pname, poh, ploc)) IN
              /\ items' = [items EXCEPT ![id] = doc]
              /\ calls' = IF items[id] = doc THEN calls ELSE MarkItem(calls, id)
    /\ updated' = IF ~audit THEN updated
                  ELSE IF items[id] = None THEN "NotFound"
                  ELSE "ok"
    /\ UNCHANGED <<ledger, count, creators, net, H0, audit, alloc, sub, csv, picker, form, panel>>

(* updateItem: the name test, the clamps and updateDoc *)
updateItem(id, pname, poh, ploc) ==
    /\ nOps < MaxOps
    /\ nOps' = nOps + 1
    /\ IF (pname # None /\ trim(Val(pname)) = <<>>) \/ items[id] = None
         THEN UNCHANGED <<items, calls>>
         ELSE LET doc == Some(ApplyPatch(Val(items[id]), pname, poh, ploc)) IN
              /\ items' = [items EXCEPT ![id] = doc]
              /\ calls' = IF items[id] = doc THEN calls ELSE MarkItem(calls, id)
    /\ updated' = IF ~audit THEN updated
                  ELSE IF pname # None /\ trim(Val(pname)) = <<>> THEN "NameRequired"
                  ELSE IF items[id] = None THEN "NotFound"
                  ELSE "ok"
    /\ UNCHANGED <<ledger, count, creators, net, H0, audit, alloc, sub, csv, picker, form, panel>>

(* a delete that also removes the ledger entries of the item *)
deleteItem_cascade(id) ==
    /\ nOps < MaxOps
    /\ nOps' = nOps + 1
    /\ items' = [items EXCEPT ![id] = None]
    /\ ledger' = [u \in Users |-> [ledger[u] EXCEPT ![id] = None]]
    /\ calls' = IF items[id] = None THEN calls ELSE MarkItem(calls, id)
    /\ UNCHANGED <<count, creators, net, H0, audit, alloc, updated, sub, csv, picker, form, panel>>

(* deleteItem: deleteDoc *)
deleteItem(id) ==
    /\ nOps < MaxOps
    /\ nOps' = nOps + 1
    /\ items' = [items EXCEPT ![id] = None]
    /\ calls' = IF items[id] = None THEN calls ELSE MarkItem(calls, id)
    /\ UNCHANGED <<ledger, count, creators, net, H0, audit, alloc, updated, sub, csv, picker, form, panel>>

(* --------------------------- ItemDetailPanel -------------------------- *)
(* the names typed into the panel's name field *)
PanelNames == {<<"a", "1">>, <<" ">>}

(* the panel's effect on its item prop: editedItem is a copy of the item   *)
(* as it was handed over, with on_hand ?? 0                                *)
PanelLoad(id) ==
    /\ items[id] # None
    /\ panel' = Some([id |-> id,
                      editedItem |-> [name |-> Val(items[id]).name,
                                      on_hand |-> OnHandOr0(Val(items[id])),
                                      location |-> Val(items[id]).location]])
    /\ UNCHANGED <<items, ledger, count, calls, creators, net, H0, nOps, audit, alloc, updated, sub, csv, picker, form>>

(* the name field's onChange *)
PanelSetName(nm) ==
    /\ panel # None
    /\ panel' = Some([Val(panel) EXCEPT !.editedItem.name = nm])
    /\ UNCHANGED <<items, ledger, count, calls, creators, net, H0, nOps, audit, alloc, updated, sub, csv, picker, form>>

(* handleSave: the patch carries every field of editedItem *)
handleSave ==
    /\ panel # None
    /\ updateItem(Val(panel).id, Some(Val(panel).editedItem.name),
                  Some(Val(panel).editedItem.on_hand),
                  Some(Val(panel).editedItem.location))

(* onClose *)
PanelClose ==
    /\ panel # None
    /\ panel' = None
    /\ UNCHANGED <<items, ledger, count, calls, creators, net, H0, nOps, audit, alloc, updated, sub, csv, picker, form>>

(* --------------------------- subscribeToItems ------------------------- *)
(* snapshot.docs.map(doc => ({id: doc.id, ...doc.data()})): every document *)
(* of the collection, each with its id                                     *)
Snapshot ==
    {[id |-> i, name |-> Val(items[i]).name, on_hand |-> Val(items[i]).on_hand,
      location |-> Val(items[i]).location] :
        i \in {j \in AllIds : items[j] # None}}

(* useItems' effect: subscribeToItems registers the listener *)
Subscribe ==
    /\ sub.state = "none"
    /\ sub' = [sub EXCEPT !.state = "open"]
    /\ UNCHANGED <<items, ledger, count, calls, creators, net, H0, nOps, audit, alloc, updated, csv, picker, form, panel>>

(* a listener that goes on delivering after it was detached *)
Deliver_afterUnsubscribe ==
    /\ sub.state \in {"open", "closed"}
    /\ sub.items # Some(Snapshot)
    /\ sub' = [sub EXCEPT !.items = Some(Snapshot), !.loading = FALSE, !.n = sub.n + 1]
    /\ UNCHANGED <<items, ledger, count, calls, creators, net, H0, nOps, audit, alloc, updated, csv, picker, form, panel>>

(* the listener fires: first with the collection as it is, then whenever   *)
(* the collection differs from what was delivered last; the callback gets  *)
(* the whole collection (setItems, setLoading(false))                      *)
Deliver ==
    /\ sub.state = "open"
    /\ sub.items # Some(Snapshot)
    /\ sub' = [sub EXCEPT !.items = Some(Snapshot), !.loading = FALSE, !.n = sub.n + 1]
    /\ UNCHANGED <<items, ledger, count, calls, creators, net, H0, nOps, audit, alloc, updated, csv, picker, form, panel>>

(* the listener's error callback: the store ends the listener *)
SubscribeError ==
    /\ sub.state = "open"
    /\ sub' = [sub EXCEPT !.state = "failed"]
    /\ UNCHANGED <<items, ledger, count, calls, creators, net, H0, nOps, audit, alloc, updated, csv, picker, form, panel>>

(* useItems' cleanup: the unsubscribe handle is called *)
Unsubscribe ==
    /\ sub.state = "open"
    /\ sub' = [sub EXCEPT !.state = "closed"]
    /\ UNCHANGED <<items, ledger, count, calls, creators, net, H0, nOps, audit, alloc, updated, csv, picker, form, panel>>

(* ------------------------------ CSV import ---------------------------- *)
DigitChars == <<"0", "1", "2", "3", "4", "5", "6", "7", "8", "9">>

IsDigit(ch) == \E d \in 1..10 : DigitChars[d] = ch

DigitVal(ch) == (CHOOSE d \in 1..10 : DigitChars[d] = ch) - 1

(* the longest prefix of s made of digits *)
RECURSIVE DigitPrefix(_)
DigitPrefix(s) ==
    IF s # <<>> /\ IsDigit(Head(s)) THEN <<Head(s)>> \o DigitPrefix(Tail(s)) ELSE <<>>

RECURSIVE DigitsValue(_, _)
DigitsValue(ds, acc) ==
    IF ds = <<>> THEN acc ELSE DigitsValue(Tail(ds), 10 * acc + DigitVal(Head(ds)))

(* parseFloat: an optional sign and the longest run of digits after it;    *)
(* what follows the digits is ignored; no digit at all gives NaN           *)
parseFloat(s) ==
    LET neg == s # <<>> /\ Head(s) = "-"
        body == IF neg THEN Tail(s) ELSE s
        ds == DigitPrefix(body)
    IN IF ds = <<>> THEN NaN
       ELSE Some(IF neg THEN 0 - DigitsValue(ds, 0) ELSE DigitsValue(ds, 0))

(* the string-to-number conversion of Math.max's argument: the empty       *)
(* string is 0, a string that is not a number through and through is NaN   *)
ToNumber(s) ==
    LET t == trim(s)
        neg == t # <<>> /\ Head(t) = "-"
        body == IF neg THEN Tail(t) ELSE t
    IN IF t = <<>> THEN Some(0)
       ELSE IF body # <<>> /\ DigitPrefix(body) = body
              THEN Some(IF neg THEN 0 - DigitsValue(body, 0) ELSE DigitsValue(body, 0))
              ELSE NaN

(* a numeric field of a draft: a number (or undefined), or the row's text  *)
Num(v) == [t |-> "num", v |-> v]

Str(sq) == [t |-> "str", v |-> sq]

(* the number Math.max(0, field) works on *)
MathArg(f) == IF f.t = "str" THEN ToNumber(f.v) ELSE f.v

(* validateRow's parseNumber *)
parseNumber(value) ==
    IF value = <<>> THEN None
    ELSE LET num == parseFloat(trim(value)) IN IF num = NaN THEN None ELSE num

(* ---------------------------- locations ------------------------------ *)
StartsWith(s, pre) == Len(s) >= Len(pre) /\ SubSeq(s, 1, Len(pre)) = pre

Drop(s, n) == SubSeq(s, n + 1, Len(s))

(* tag(\d+) at the start of s, the tag in either case: the digits and what *)
(* follows them                                                            *)
TagDigits(s, tag) ==
    LET ds == DigitPrefix(Drop(s, Len(tag))) IN
    IF StartsWith(LowerSeq(s), tag) /\ ds # <<>>
      THEN Some([num |-> ds, rest |-> Drop(s, Len(tag) + Len(ds))])
      ELSE None

Cab == <<"c", "a", "b">>

Row == <<"r", "o", "w">>

Col == <<"c", "o", "l">>

(* cab(\d+)[seps]row(\d+)[seps]col(\d+) at the start of s *)
TripleAt(s, seps) ==
    LET a == TagDigits(s, Cab) IN
    IF a = None \/ Val(a).rest = <<>> \/ Head(Val(a).rest) \notin seps THEN None
    ELSE LET b == TagDigits(Tail(Val(a).rest), Row) IN
         IF b = None \/ Val(b).rest = <<>> \/ Head(Val(b).rest) \notin seps THEN None
         ELSE LET c == TagDigits(Tail(Val(b).rest), Col) IN
              IF c = None THEN None ELSE Some(<<Val(a).num, Val(b).num, Val(c).num>>)

(* the first match of the pattern anywhere in s *)
RECURSIVE TripleSearch(_, _)
TripleSearch(s, seps) ==
    IF s = <<>> THEN None
    ELSE IF TripleAt(s, seps) # None THEN TripleAt(s, seps)
    ELSE TripleSearch(Tail(s), seps)

(* the first match of tag(\d+) anywhere in s *)
RECURSIVE TagSearch(_, _)
TagSearch(s, tag) ==
    IF s = <<>> THEN None
    ELSE IF TagDigits(s, tag) # None THEN Some(Val(TagDigits(s, tag)).num)
    ELSE TagSearch(Tail(s), tag)

(* the longest prefix of s made of commas and white space *)
RECURSIVE SepPrefix(_)
SepPrefix(s) ==
    IF s # <<>> /\ Head(s) \in {",", " "} THEN <<Head(s)>> \o SepPrefix(Tail(s)) ELSE <<>>

(* ^(\d+)[,\s]+(\d+)[,\s]+(\d+)$ *)
NumsMatch(t) ==
    LET d1 == DigitPrefix(t)
        r1 == Drop(t, Len(d1))
        s1 == SepPrefix(r1)
        r2 == Drop(r1, Len(s1))
        d2 == DigitPrefix(r2)
        r3 == Drop(r2, Len(d2))
        s2 == SepPrefix(r3)
        r4 == Drop(r3, Len(s2))
        d3 == DigitPrefix(r4)
    IN IF d1 # <<>> /\ s1 # <<>> /\ d2 # <<>> /\ s2 # <<>> /\ d3 # <<>>
          /\ Drop(r4, Len(d3)) = <<>>
         THEN Some(<<d1, d2, d3>>)
         ELSE None

(* the location array of three matched numbers *)
Tagged(m) == <<Cab \o m[1], Row \o m[2], Col \o m[3]>>

(* parseLocationFromCSV: "cab1-row2-col3", "cab1,row2,col3" or "1,2,3" *)
parseLocationFromCSV(locStr) ==
    LET dashMatch == TripleSearch(locStr, {"-", ","})
        numsMatch == NumsMatch(trim(locStr))
    IN IF dashMatch # None THEN Some(Tagged(Val(dashMatch)))
       ELSE IF numsMatch # None THEN Some(Tagged(Val(numsMatch)))
       ELSE None

(* the decimal text of a number, as a template literal prints it *)
RECURSIVE Digits(_)
Digits(n) ==
    IF n < 0 THEN <<"-">> \o Digits(0 - n)
    ELSE IF n < 10 THEN <<DigitChars[n + 1]>>
    ELSE Digits(n \div 10) \o <<DigitChars[(n % 10) + 1]>>

(* buildLocationArray: [`cab${cabinet}`, `row${row}`, `col${col}`] *)
buildLocationArray(cabinet, row, col) ==
    <<Cab \o Digits(cabinet), Row \o Digits(row), Col \o Digits(col)>>

(* the longest suffix of s made of digits *)
RECURSIVE DigitSuffix(_)
DigitSuffix(s) ==
    IF s # <<>> /\ IsDigit(s[Len(s)])
      THEN DigitSuffix(SubSeq(s, 1, Len(s) - 1)) \o <<s[Len(s)]>>
      ELSE <<>>

(* extractLocationNumber: the trailing number of "cab1", or the text itself *)
extractLocationNumber(str) == IF DigitSuffix(str) = <<>> THEN str ELSE DigitSuffix(str)

(* parseLocation on an array of texts (a legacy text is the array's first  *)
(* element): cabinet, row and col as texts, or nothing                     *)
parseLocation(locationData) ==
    IF Len(locationData) = 3
      THEN Some([cabinet |-> Str(extractLocationNumber(locationData[1])),
                 row |-> Str(extractLocationNumber(locationData[2])),
                 col |-> Str(extractLocationNumber(locationData[3]))])
    ELSE IF locationData = <<>> \/ locationData[1] = <<>> THEN None
    ELSE LET str == locationData[1]
             match == TripleSearch(str, {"-"})
             cabMatch == TagSearch(str, Cab)
             rowMatch == TagSearch(str, Row)
             colMatch == TagSearch(str, Col)
         IN IF match # None
              THEN Some([cabinet |-> Str(Val(match)[1]), row |-> Str(Val(match)[2]),
                         col |-> Str(Val(match)[3])])
            ELSE IF cabMatch # None \/ rowMatch # None \/ colMatch # None
              THEN Some([cabinet |-> Str(IF cabMatch # None THEN Val(cabMatch) ELSE <<"-">>),
                         row |-> Str(IF rowMatch # None THEN Val(rowMatch) ELSE <<"-">>),
                         col |-> Str(IF colMatch # None THEN Val(colMatch) ELSE <<"-">>)])
            ELSE None

(* the parts of a location cell: split at ';', trimmed, the empty dropped *)
Parts(cell) == SelectSeq([n \in 1..Len(cell) |-> trim(cell[n])], LAMBDA x : x # <<>>)

(* the locations of a row: its parts that parse, in order *)
RECURSIVE ParsedParts(_)
ParsedParts(parts) ==
    IF parts = <<>> THEN <<>>
    ELSE (IF parseLocationFromCSV(Head(parts)) = None
            THEN <<>>
            ELSE <<Val(parseLocationFromCSV(Head(parts)))>>) \o ParsedParts(Tail(parts))

LocationArrays(cell) == ParsedParts(Parts(cell))

(* === of two values that are a number or a text *)
StrictEq(a, b) == a.t = b.t /\ a.v = b.v

(* Array.prototype.join('-') *)
RECURSIVE JoinDash(_)
JoinDash(arr) ==
    IF arr = <<>> THEN <<>>
    ELSE IF Len(arr) = 1 THEN arr[1]
    ELSE arr[1] \o <<"-">> \o JoinDash(Tail(arr))

(* the options of LocationPicker's three selects *)
CabinetOptions == 1..5

RowOptions == 1..6

ColOptions == 1..4

setCabinet(n) ==
    /\ picker' = [picker EXCEPT !.cabinet = n]
    /\ UNCHANGED <<items, ledger, count, calls, creators, net, H0, nOps, audit, alloc, updated, sub, csv, form, panel>>

setRow(n) ==
    /\ picker' = [picker EXCEPT !.row = n]
    /\ UNCHANGED <<items, ledger, count, calls, creators, net, H0, nOps, audit, alloc, updated, sub, csv, form, panel>>

setCol(n) ==
    /\ picker' = [picker EXCEPT !.col = n]
    /\ UNCHANGED <<items, ledger, count, calls, creators, net, H0, nOps, audit, alloc, updated, sub, csv, form, panel>>

(* LocationPicker.handleAdd in the new-item dialog: the location is handed *)
(* to onLocationAdd, which appends it to the form, unless an existing      *)
(* location has the same serialized form                                   *)
handleAdd ==
    LET locationArr == buildLocationArray(picker.cabinet, picker.row, picker.col)
        key == JoinDash(locationArr)
        isDuplicate == \E n \in 1..Len(form) : JoinDash(form[n]) = key
    IN /\ isDuplicate \/ Len(form) < MaxLocs
       /\ form' = IF isDuplicate THEN form ELSE Append(form, locationArr)
       /\ UNCHANGED <<items, ledger, count, calls, creators, net, H0, nOps, audit, alloc, updated, sub, csv, picker, panel>>

(* NewItemModal.removeLocation *)
removeLocation(index) ==
    /\ index \in 1..Len(form)
    /\ form' = SubSeq(form, 1, index - 1) \o SubSeq(form, index + 1, Len(form))
    /\ UNCHANGED <<items, ledger, count, calls, creators, net, H0, nOps, audit, alloc, updated, sub, csv, picker, panel>>

(* NewItemModal.handleClose: the form is reset and the dialog, with its    *)
(* picker, is unmounted                                                    *)
NewItemModalClose ==
    /\ form' = <<>>
    /\ picker' = NewPicker
    /\ UNCHANGED <<items, ledger, count, calls, creators, net, H0, nOps, audit, alloc, updated, sub, csv, panel>>

(* the test of one numeric field *)
NumberError(raw, parsed) ==
    /\ raw # <<>>
    /\ trim(raw) # <<>>
    /\ (parsed = None \/ Val(parsed) < 0)

RowErrors(row) ==
    (IF row.name = <<>> \/ trim(row.name) = <<>> THEN <<"Name is required">> ELSE <<>>)
    \o (IF NumberError(row.on_hand, parseNumber(row.on_hand))
          THEN <<"on_hand must be a positive number">> ELSE <<>>)
    \o (IF NumberError(row.quantity, parseNumber(row.quantity))
          THEN <<"quantity must be a positive number">> ELSE <<>>)
    \o (IF NumberError(row.retail_price, parseNumber(row.retail_price))
          THEN <<"retail_price must be a positive number">> ELSE <<>>)

RowDraft(row) ==
    [name |-> trim(row.name),
     location |-> LocationArrays(row.location),
     on_hand |-> Num(parseNumber(row.on_hand)),
     quantity |-> Num(parseNumber(row.quantity)),
     retail_price |-> Num(parseNumber(row.retail_price))]

(* a validation that takes a location it cannot parse for an error *)
validateRow_locationFatal(row) ==
    LET errors == RowErrors(row) \o
                  (IF Len(LocationArrays(row.location)) < Len(Parts(row.location))
                     THEN <<"location is not valid">> ELSE <<>>)
    IN [valid |-> errors = <<>>, errors |-> errors, draft |-> RowDraft(row)]

validateRow(row) ==
    LET errors == RowErrors(row)
    IN [valid |-> errors = <<>>, errors |-> errors, draft |-> RowDraft(row)]

(* location texts: "cab1-row2-col3", "1, 2,3", "Cab9,row9,col9", "shelf" *)
LocDashed == <<"c", "a", "b", "1", "-", "r", "o", "w", "2", "-", "c", "o", "l", "3">>

LocNumbers == <<"1", ",", " ", "2", ",", "3">>

LocOutside == <<"C", "a", "b", "9", ",", "r", "o", "w", "9", ",", "c", "o", "l", "9">>

Shelf == <<"s", "h", "e", "l", "f">>

(* the cells of one data line, as typed *)
Cells(n, oh, q, rp, loc) ==
    [name |-> n, on_hand |-> oh, quantity |-> q, retail_price |-> rp, location |-> loc]

RowInputs ==
    {Cells(<<"A">>, <<"2">>, <<>>, <<>>, <<LocDashed>>),
     Cells(<<"A", " ">>, <<>>, <<>>, <<>>, <<Shelf>>),
     Cells(<<"A">>, <<"2", "x">>, <<"1">>, <<"0">>, <<>>),
     Cells(<<>>, <<"-", "1">>, <<>>, <<>>, <<>>),
     Cells(<<" ">>, <<>>, <<>>, <<>>, <<Shelf>>),
     Cells(<<"A">>, <<"x">>, <<>>, <<>>, <<>>),
     Cells(<<"A">>, <<>>, <<"-", "1">>, <<>>, <<>>),
     Cells(<<"A">>, <<" ">>, <<>>, <<"x">>, <<LocDashed, Shelf>>),
     Cells(<<"A">>, <<>>, <<>>, <<>>, <<LocOutside>>),
     Cells(<<"A">>, <<>>, <<>>, <<>>, <<LocDashed, <<" ">>, LocNumbers>>)}

(* the files: a header line and up to MaxRows data lines *)
Batches == UNION {[1..n -> RowInputs] : n \in 0..MaxRows}

(* row[header] = value.trim() || '' *)
CsvRow(cells) ==
    [name |-> trim(cells.name), on_hand |-> trim(cells.on_hand),
     quantity |-> trim(cells.quantity), retail_price |-> trim(cells.retail_price),
     location |-> cells.location]

(* parseCSV's loop from data line i on: the rows that validate, in order   *)
(* (each entry also keeps its line number, as the error entries do)        *)
RECURSIVE ValidBucket(_, _)
ValidBucket(rows, i) ==
    IF i > Len(rows) THEN <<>>
    ELSE LET v == validateRow(rows[i]) IN
         (IF v.valid
            THEN <<[row |-> i + 1, draft |-> v.draft, locationArr |-> v.draft.location]>>
            ELSE <<>>) \o ValidBucket(rows, i + 1)

(* parseCSV's loop from data line i on: the rows that do not validate *)
RECURSIVE ErrorBucket(_, _)
ErrorBucket(rows, i) ==
    IF i > Len(rows) THEN <<>>
    ELSE LET v == validateRow(rows[i]) IN
         (IF v.valid
            THEN <<>>
            ELSE <<[row |-> i + 1, errors |-> v.errors, data |-> rows[i]]>>)
         \o ErrorBucket(rows, i + 1)

(* handleFileChange: the file is read and parseCSV fills the two buckets;  *)
(* a file without a data line is refused                                   *)
parseCSV(lines) ==
    LET rows == [i \in 1..Len(lines) |-> CsvRow(lines[i])] IN
    /\ csv.phase = "idle"
    /\ csv' = IF Len(lines) < 1
                THEN csv
                ELSE [csv EXCEPT !.phase = "parsed", !.rows = rows,
                                 !.validRows = ValidBucket(rows, 1),
                                 !.errorRows = ErrorBucket(rows, 1)]
    /\ UNCHANGED <<items, ledger, count, calls, creators, net, H0, nOps, audit, alloc, updated, sub, picker, form, panel>>

(* handleClose from the preview (Cancel) *)
handleClose ==
    /\ csv.phase = "parsed"
    /\ csv' = NoImport
    /\ UNCHANGED <<items, ledger, count, calls, creators, net, H0, nOps, audit, alloc, updated, sub, picker, form, panel>>

(* an import-all that leaves the name of an error row as it is *)
ErrorAsParsed_noPlaceholder(e) ==
    [row |-> e.row,
     draft |-> [name |-> e.data.name,
                location |-> <<>>,
                on_hand |-> Str(e.data.on_hand),
                quantity |-> Str(e.data.quantity),
                retail_price |-> Str(e.data.retail_price)],
     locationArr |-> <<>>]

(* handleImportAll: an error row as a draft *)
ErrorAsParsed(e) ==
    [row |-> e.row,
     draft |-> [name |-> IF e.data.name = <<>> THEN UntitledItem ELSE e.data.name,
                location |-> <<>>,
                on_hand |-> Str(e.data.on_hand),
                quantity |-> Str(e.data.quantity),
                retail_price |-> Str(e.data.retail_price)],
     locationArr |-> <<>>]

(* importRows up to its loop *)
importRows(rows, mode) ==
    /\ csv' = [csv EXCEPT !.phase = "importing", !.queue = rows,
                          !.totalToImport = Len(rows), !.imported = 0, !.count = 0,
                          !.mode = mode, !.V = Len(csv.validRows),
                          !.E = Len(csv.errorRows)]
    /\ UNCHANGED <<items, ledger, count, calls, creators, net, H0, nOps, audit, alloc, updated, sub, picker, form, panel>>

handleImportValid ==
    /\ csv.phase = "parsed"
    /\ Len(csv.validRows) > 0
    /\ importRows(csv.validRows, "valid")

handleImportAll ==
    /\ csv.phase = "parsed"
    /\ Len(csv.errorRows) > 0
    /\ importRows(csv.validRows \o [n \in 1..Len(csv.errorRows) |-> ErrorAsParsed(csv.errorRows[n])],
                  "all")

(* an import that does not await a row's create before the next one *)
ImportCreate_parallel ==
    /\ csv.phase \in {"importing", "awaiting"}
    /\ csv.queue # <<>>
    /\ Len(csv.sent) < csv.totalToImport
    /\ \E k \in Creators :
          LET row == csv.queue[Len(csv.sent) - Len(csv.results) + 1] IN
          /\ createItem(k, row.draft.name, MathArg(row.draft.on_hand), row.draft.location)
          /\ UNCHANGED form
          /\ csv' = [csv EXCEPT !.phase = "awaiting", !.k = k,
                                !.sent = Append(@, row.row)]

(* importRows' loop: createItem is called with the next row's draft *)
ImportCreate ==
    /\ csv.phase = "importing"
    /\ csv.queue # <<>>
    /\ \E k \in StoreCreators :
          /\ createItem(k, Head(csv.queue).draft.name, MathArg(Head(csv.queue).draft.on_hand),
                        Head(csv.queue).draft.location)
          /\ UNCHANGED form
          /\ csv' = [csv EXCEPT !.phase = "awaiting", !.k = k,
                                !.sent = Append(@, Head(csv.queue).row)]

(* an import that stops at the first row whose create fails *)
ImportRowDone_abortOnFailure ==
    LET res == creators[csv.k].result IN
    /\ csv.phase = "awaiting"
    /\ creators[csv.k].pc = "done"
    /\ csv' = [csv EXCEPT !.phase = "importing",
                          !.queue = IF res = "ok" THEN Tail(@) ELSE <<>>,
                          !.count = IF res = "ok" THEN @ + 1 ELSE @,
                          !.imported = IF res = "ok" THEN csv.count + 1 ELSE @,
                          !.results = Append(@, res)]
    /\ UNCHANGED <<items, ledger, count, calls, creators, net, H0, nOps, audit, alloc, updated, sub, picker, form, panel>>

(* an import whose progress counts the rows tried, not the rows created *)
ImportRowDone_countsFailures ==
    LET res == creators[csv.k].result IN
    /\ csv.phase = "awaiting"
    /\ creators[csv.k].pc = "done"
    /\ csv' = [csv EXCEPT !.phase = "importing", !.queue = Tail(@),
                          !.count = IF res = "ok" THEN @ + 1 ELSE @,
                          !.imported = @ + 1,
                          !.results = Append(@, res)]
    /\ UNCHANGED <<items, ledger, count, calls, creators, net, H0, nOps, audit, alloc, updated, sub, picker, form, panel>>

(* importRows' loop: the awaited createItem has returned or thrown *)
ImportRowDone ==
    LET res == creators[csv.k].result IN
    /\ csv.phase = "awaiting"
    /\ creators[csv.k].pc = "done"
    /\ csv' = [csv EXCEPT !.phase = "importing", !.queue = Tail(@),
                          !.count = IF res = "ok" THEN @ + 1 ELSE @,
                          !.imported = IF res = "ok" THEN csv.count + 1 ELSE @,
                          !.results = Append(@, res)]
    /\ UNCHANGED <<items, ledger, count, calls, creators, net, H0, nOps, audit, alloc, updated, sub, picker, form, panel>>

(* importRows after its loop: onComplete(count) and handleClose *)
ImportComplete ==
    /\ csv.phase = "importing"
    /\ csv.queue = <<>>
    /\ csv' = [csv EXCEPT !.phase = "closed", !.reported = Some(csv.count),
                          !.validRows = <<>>, !.errorRows = <<>>, !.imported = 0]
    /\ UNCHANGED <<items, ledger, count, calls, creators, net, H0, nOps, audit, alloc, updated, sub, picker, form, panel>>

QtyInputs == (0 - 1)..MaxQty

OnHandInputs == {None} \cup {Some(v) : v \in (0 - 1)..MaxStock}

NameInputs == {None} \cup {Some(nm) : nm \in Names}

NextTx ==
    \/ \E c \in Calls, u \in Users, i \in DocIds, q \in QtyInputs : checkoutItem(c, u, i, q)
    \/ \E c \in Calls, u \in Users, i \in DocIds, q \in QtyInputs : returnItem(c, u, i, q)
    \/ \E c \in Calls : CheckoutGetItem(c)
    \/ \E c \in Calls : CheckoutGetLedger(c)
    \/ \E c \in Calls : CheckoutCommit(c)
    \/ \E c \in Calls : ReturnGetLedger(c)
    \/ \E c \in Calls : ReturnCommit(c)

NextStore ==
    \/ \E k \in StoreCreators, nm \in Names, oh \in OnHandInputs : handleSubmit(k, nm, oh)
    \/ \E k \in Creators : CreateAllocGet(k)
    \/ \E k \in Creators : CreateAllocCommit(k)
    \/ \E k \in Creators : CreateSetDoc(k)
    \/ \E k \in Creators : CreateSetDocFails(k)
    \/ \E id \in DocIds, pn \in NameInputs, oh \in OnHandInputs : updateItem(id, pn, oh, None)
    \/ \E id \in DocIds : deleteItem(id)

Next == NextTx \/ NextStore

(* two items in stock, created as the first two of the collection, under  *)
(* audit                                                                   *)
InitTwo ==
    \E h1 \in 1..MaxStock, h2 \in {1} :
        /\ items = [i \in AllIds |->
                      IF i = buildItemDocId(<<"A">>, 1)
                        THEN Some([name |-> <<"A">>, on_hand |-> Some(h1), location |-> <<>>])
                      ELSE IF i = buildItemDocId(<<"A">>, 2)
                        THEN Some([name |-> <<"A">>, on_hand |-> Some(h2), location |-> <<>>])
                      ELSE None]
        /\ H0 = [i \in DocIds |-> IF i = buildItemDocId(<<"A">>, 1) THEN h1
                                  ELSE IF i = buildItemDocId(<<"A">>, 2) THEN h2 ELSE 0]
        /\ ledger = [u \in Users |-> [i \in DocIds |-> None]]
        /\ count = Some(2)
        /\ calls = [c \in Calls |-> IdleCall]
        /\ creators = [k \in Creators |-> IdleCreator]
        /\ net = [u \in Users |-> [i \in DocIds |-> 0]]
        /\ nOps = 0
        /\ audit = TRUE
        /\ alloc = [prior |-> 2, issued |-> <<>>,
                    ids |-> <<buildItemDocId(<<"A">>, 1), buildItemDocId(<<"A">>, 2)>>]
        /\ updated = "none"
        /\ sub = NoSub
        /\ csv = NoImport
        /\ picker = NewPicker
        /\ form = <<>>
        /\ panel = None

(* checkout and return transactions on the two items, positive quantities *)
NextTwo ==
    \/ \E c \in Calls, u \in Users, i \in DocIds, q \in 1..MaxQty : checkoutItem(c, u, i, q)
    \/ \E c \in Calls, u \in Users, i \in DocIds, q \in 1..MaxQty : returnItem(c, u, i, q)
    \/ \E c \in Calls : CheckoutGetItem(c)
    \/ \E c \in Calls : CheckoutGetLedger(c)
    \/ \E c \in Calls : CheckoutCommit(c)
    \/ \E c \in Calls : ReturnGetLedger(c)
    \/ \E c \in Calls : ReturnCommit(c)

SpecTwo == InitTwo /\ [][NextTwo]_vars

(* checkout and return transactions only: no direct edit, delete or create *)
SpecTx == InitTx /\ [][NextTx]_vars

Spec == Init /\ [][Next]_vars

(* The item store alone, under audit, with concurrent creates. It starts   *)
(* either empty, the counter document absent, or as the collection is      *)
(* after ten creates of which the first was named "a1": that item is       *)
(* there (the nine later ones have been deleted) and the counter is 10.    *)
InitIds ==
    /\ \/ /\ count = None
          /\ items = [i \in AllIds |-> None]
          /\ alloc = [prior |-> 0, issued |-> <<>>, ids |-> <<>>]
       \/ /\ count = Some(10)
          /\ items = [i \in AllIds |->
                        IF i = buildItemDocId(<<"a", "1">>, 1)
                          THEN Some([name |-> <<"a", "1">>, on_hand |-> None,
                                     location |-> <<>>])
                          ELSE None]
          /\ alloc = [prior |-> 10, issued |-> <<>>,
                      ids |-> <<buildItemDocId(<<"a", "1">>, 1)>>]
    /\ ledger = [u \in Users |-> [i \in DocIds |-> None]]
    /\ calls = [c \in Calls |-> IdleCall]
    /\ creators = [k \in Creators |-> IdleCreator]
    /\ net = [u \in Users |-> [i \in DocIds |-> 0]]
    /\ H0 = [i \in DocIds |-> 0]
    /\ nOps = 0
    /\ audit = TRUE
    /\ updated = "none"
    /\ sub = NoSub
    /\ csv = NoImport
    /\ picker = NewPicker
    /\ form = <<>>
    /\ panel = None

IdOnHandInputs == {None, Some(0 - 1)}

IdNameInputs == {None} \cup {Some(nm) : nm \in IdNames}

NextIds ==
    \/ \E k \in Creators, nm \in IdNames, oh \in IdOnHandInputs : handleSubmit(k, nm, oh)
    \/ \E k \in Creators : CreateAllocGet(k)
    \/ \E k \in Creators : CreateAllocCommit(k)
    \/ \E k \in Creators : CreateSetDoc(k)
    \/ \E k \in Creators : CreateSetDocFails(k)

SpecIds == InitIds /\ [][NextIds]_vars

(* the same stores with one create at a time and direct edits *)
NextNames ==
    \/ \E k \in StoreCreators, nm \in IdNames, oh \in IdOnHandInputs : handleSubmit(k, nm, oh)
    \/ \E k \in Creators : CreateAllocGet(k)
    \/ \E k \in Creators : CreateAllocCommit(k)
    \/ \E k \in Creators : CreateSetDoc(k)
    \/ \E k \in Creators : CreateSetDocFails(k)
    \/ \E id \in AllIds, pn \in IdNameInputs, oh \in IdOnHandInputs : updateItem(id, pn, oh, None)

SpecNames == InitIds /\ [][NextNames]_vars

(* the item store and one subscription to it; an open listener keeps       *)
(* delivering                                                              *)
NextSub ==
    \/ NextStore
    \/ Subscribe
    \/ Deliver
    \/ SubscribeError
    \/ Unsubscribe

SpecSub == Init /\ [][NextSub]_vars /\ WF_vars(Deliver)

(* the import dialog on an empty store, under audit *)
InitCsv ==
    /\ count = None
    /\ items = [i \in AllIds |-> None]
    /\ alloc = [prior |-> 0, issued |-> <<>>, ids |-> <<>>]
    /\ ledger = [u \in Users |-> [i \in DocIds |-> None]]
    /\ calls = [c \in Calls |-> IdleCall]
    /\ creators = [k \in Creators |-> IdleCreator]
    /\ net = [u \in Users |-> [i \in DocIds |-> 0]]
    /\ H0 = [i \in DocIds |-> 0]
    /\ nOps = 0
    /\ audit = TRUE
    /\ updated = "none"
    /\ sub = NoSub
    /\ csv = NoImport
    /\ picker = NewPicker
    /\ form = <<>>
    /\ panel = None

NextCsv ==
    \/ \E lines \in Batches : parseCSV(lines)
    \/ handleClose
    \/ handleImportValid
    \/ handleImportAll
    \/ ImportCreate
    \/ \E k \in Creators : CreateAllocGet(k)
    \/ \E k \in Creators : CreateAllocCommit(k)
    \/ \E k \in Creators : CreateSetDoc(k)
    \/ \E k \in Creators : CreateSetDocFails(k)
    \/ ImportRowDone
    \/ ImportComplete

SpecCsv == InitCsv /\ [][NextCsv]_vars

(* the new-item dialog with its location picker, before the submit *)
NextLoc ==
    \/ \E n \in CabinetOptions : setCabinet(n)
    \/ \E n \in RowOptions : setRow(n)
    \/ \E n \in ColOptions : setCol(n)
    \/ handleAdd
    \/ \E index \in 1..MaxLocs : removeLocation(index)
    \/ NewItemModalClose

SpecLoc == InitCsv /\ [][NextLoc]_vars

(* checkout and return transactions next to one open detail panel *)
NextPanel ==
    \/ NextTx
    \/ \E id \in DocIds : PanelLoad(id)
    \/ \E nm \in PanelNames : PanelSetName(nm)
    \/ handleSave
    \/ PanelClose

SpecPanel == InitTx /\ [][NextPanel]_vars

(* checkout and return transactions and deletes, under audit *)
NextDel ==
    \/ NextTx
    \/ \E id \in DocIds : deleteItem(id)

SpecDel == InitTx /\ [][NextDel]_vars

(* ------------------------------ readings ------------------------------ *)
OnHand(i) == OnHandOr0(Val(items[i]))

LedgerQty(u, i) == IF ledger[u][i] = None THEN 0 ELSE Val(ledger[u][i])

RECURSIVE SumOver(_, _, _)
SumOver(f, S, i) ==
    IF S = {} THEN 0
    ELSE LET u == CHOOSE x \in S : TRUE IN f[u][i] + SumOver(f, S \ {u}, i)

(* units of item i recorded in the ledgers of all users *)
CheckedOut(i) == SumOver([u \in Users |-> [j \in DocIds |-> LedgerQty(u, j)]], Users, i)

(* committed checkouts minus committed returns of item i, all users *)
NetOut(i) == SumOver(net, Users, i)

Done(c) == calls[c].pc = "done"

Ok(c, op) == Done(c) /\ calls[c].op = op /\ calls[c].result = "ok"

(* this step starts call c as the given operation with a positive qty *)
Starts(c, op) ==
    /\ FirstFree(c)
    /\ nOps' = nOps + 1
    /\ calls'[c].op = op
    /\ calls'[c].qty > 0

(* this step is call c's transaction.get(itemRef) of a checkout *)
ReadsItem(c) ==
    \/ Starts(c, "checkout")
    \/ calls[c].op = "checkout" /\ calls[c].pc = "getItem" /\ calls'[c].pc # "getItem"

(* this step is call c's transaction.get(checkedOutRef) of a return *)
ReadsLedger(c) ==
    \/ Starts(c, "return")
    \/ calls[c].op = "return" /\ calls[c].pc = "getLedger" /\ calls'[c].pc # "getLedger"

(* this step commits call c's transaction *)
Commits(c, op) ==
    /\ calls[c].op = op
    /\ calls[c].pc = "commit"
    /\ calls'[c].pc = "done"
    /\ calls'[c].result = "ok"

(* -------------------------------- claims ------------------------------ *)
(* C1: in every state reached by any interleaving of create, update,       *)
(* delete, checkout and return, an item's on_hand, once present, is >= 0.  *)
OnHandNeverNegative ==
    \A i \in DocIds :
        (items[i] # None /\ Val(items[i]).on_hand # None) => Val(Val(items[i]).on_hand) >= 0

(* a created item (not the initial one) drained to 0 by a checkout *)
DrainedCreatedItem ==
    \E i \in DocIds, u \in Users :
        /\ i # buildItemDocId(<<"A">>, 1)
        /\ items[i] # None
        /\ Val(items[i]).on_hand = Some(0)
        /\ ledger[u][i] # None

(* C2: with checkouts and returns only, on_hand of an item equals its      *)
(* initial value minus the committed checkouts plus the committed returns; *)
(* a transaction that was re-run counts once.                              *)
StockEquation ==
    \A i \in DocIds : items[i] # None => OnHand(i) = H0[i] - NetOut(i)

(* two transactions committed, one of them on its second attempt *)
RetriedCommitCounted ==
    \E c, d \in Calls :
        /\ c # d
        /\ Done(c) /\ calls[c].result = "ok" /\ calls[c].attempts >= 2
        /\ Done(d) /\ calls[d].result = "ok"
        /\ calls[c].itemId = calls[d].itemId

(* c and d are the only two calls made, both checkouts of the same item,   *)
(* asking together for more than the item held                             *)
TwoCheckouts(c, d) ==
    /\ c # d
    /\ nOps = 2
    /\ calls[c].op = "checkout" /\ calls[d].op = "checkout"
    /\ calls[c].qty > 0 /\ calls[d].qty > 0
    /\ calls[c].itemId = calls[d].itemId
    /\ items[calls[c].itemId] # None
    /\ calls[c].qty + calls[d].qty > H0[calls[c].itemId]

(* C3: two checkouts q1, q2 of one item holding H units, q1 + q2 > H, and  *)
(* nothing else: never both commit; when each fits alone exactly one       *)
(* commits and the other fails for insufficient stock; when neither fits   *)
(* both fail.                                                              *)
OversoldCheckouts ==
    \A c, d \in Calls :
        TwoCheckouts(c, d) =>
            LET H == H0[calls[c].itemId] IN
            /\ ~(Ok(c, "checkout") /\ Ok(d, "checkout"))
            /\ (Done(c) /\ Done(d) /\ calls[c].qty <= H /\ calls[d].qty <= H) =>
                   \/ Ok(c, "checkout") /\ calls[d].result = "InsufficientStock"
                   \/ Ok(d, "checkout") /\ calls[c].result = "InsufficientStock"
            /\ (Done(c) /\ Done(d) /\ calls[c].qty > H /\ calls[d].qty > H) =>
                   /\ calls[c].result = "InsufficientStock"
                   /\ calls[d].result = "InsufficientStock"

(* the loser passed the test on its first read and failed it on the re-run *)
RaceLostOnRerun ==
    \E c, d \in Calls :
        /\ TwoCheckouts(c, d)
        /\ Ok(c, "checkout")
        /\ Done(d) /\ calls[d].result = "InsufficientStock" /\ calls[d].attempts = 2
        /\ calls[d].qty <= H0[calls[d].itemId]

(* C4: with checkouts and returns only, units on hand plus units in all    *)
(* users' ledgers equal the item's initial on_hand, in every state.        *)
UnitsConserved ==
    \A i \in DocIds : items[i] # None => OnHand(i) + CheckedOut(i) = H0[i]

(* both users hold units of the same item *)
TwoHolders ==
    \E i \in DocIds : \A u \in Users : ledger[u][i] # None

(* C5: a checkout whose qty exceeds the on_hand its transaction reads      *)
(* fails for insufficient stock, and stock and ledgers stay as they were.  *)
CheckoutRejected ==
    [][\A c \in Calls :
         (/\ ReadsItem(c)
          /\ items[calls'[c].itemId] # None
          /\ calls'[c].qty > OnHand(calls'[c].itemId))
         => /\ calls'[c].pc = "done"
            /\ calls'[c].result = "InsufficientStock"
            /\ items' = items
            /\ ledger' = ledger]_vars

(* a rejected checkout of a user who already holds units of a stocked item *)
RejectedWithEntry ==
    \E c \in Calls :
        /\ Done(c) /\ calls[c].op = "checkout" /\ calls[c].result = "InsufficientStock"
        /\ ledger[calls[c].uid][calls[c].itemId] # None
        /\ OnHand(calls[c].itemId) > 0

(* C6: a committed checkout lowers on_hand by qty and creates the entry    *)
(* with qty or adds qty to it; so each (user, item) entry holds the user's *)
(* committed checkouts minus committed returns (no entry: zero).           *)
CheckoutEffect ==
    /\ [](\A u \in Users, i \in DocIds : LedgerQty(u, i) = net[u][i])
    /\ [][\A c \in Calls :
            Commits(c, "checkout") =>
                LET u == calls[c].uid
                    i == calls[c].itemId
                IN /\ OnHand(i)' = OnHand(i) - calls[c].qty
                   /\ ledger'[u][i] = Some(LedgerQty(u, i) + calls[c].qty)]_vars

(* a second checkout added to the entry the first one created *)
EntryIncremented ==
    \E c, d \in Calls :
        /\ c # d
        /\ nOps = 2
        /\ Ok(c, "checkout") /\ Ok(d, "checkout")
        /\ calls[c].uid = calls[d].uid /\ calls[c].itemId = calls[d].itemId
        /\ ledger[calls[c].uid][calls[c].itemId] = Some(calls[c].qty + calls[d].qty)

(* the only two calls made: a committed checkout c and a committed return  *)
(* d of the same qty by the same user on the same item                     *)
CheckoutThenReturn(c, d) ==
    /\ c # d
    /\ nOps = 2
    /\ Ok(c, "checkout") /\ Ok(d, "return")
    /\ calls[c].uid = calls[d].uid /\ calls[c].itemId = calls[d].itemId
    /\ calls[c].qty = calls[d].qty

(* C7: checkout(q) then return(q) by the same user, with no entry before   *)
(* and nothing else done, leaves no entry and on_hand at its first value.  *)
FullReturnRestores ==
    \A c, d \in Calls :
        CheckoutThenReturn(c, d) =>
            /\ ledger[calls[c].uid][calls[c].itemId] = None
            /\ OnHand(calls[c].itemId) = H0[calls[c].itemId]

(* the sequence happened with the largest qty *)
FullReturnDone ==
    \E c, d \in Calls : CheckoutThenReturn(c, d) /\ calls[c].qty = MaxQty

(* C8: a committed return of r units, r less than the entry's qty, keeps   *)
(* the entry, lowers it by r and raises on_hand by r.                      *)
PartialReturn ==
    [][\A c \in Calls :
         (Commits(c, "return") /\ calls[c].qty < LedgerQty(calls[c].uid, calls[c].itemId))
         => LET u == calls[c].uid
                i == calls[c].itemId
            IN /\ ledger'[u][i] = Some(LedgerQty(u, i) - calls[c].qty)
               /\ OnHand(i)' = OnHand(i) + calls[c].qty]_vars

(* a return that left part of the entry in place *)
PartialReturnDone ==
    \E c \in Calls :
        /\ nOps = 2
        /\ Ok(c, "return")
        /\ ledger[calls[c].uid][calls[c].itemId] # None
        /\ OnHand(calls[c].itemId) = H0[calls[c].itemId] - LedgerQty(calls[c].uid, calls[c].itemId)

(* C9: every ledger entry that exists has qty > 0.                         *)
LedgerQtyPositive ==
    \A u \in Users, i \in DocIds : ledger[u][i] # None => Val(ledger[u][i]) > 0

(* a return took the last units of one user's entry while another user's   *)
(* entry stays                                                             *)
EntryDeletedAtZero ==
    \E c \in Calls, v \in Users :
        /\ Ok(c, "return")
        /\ ledger[calls[c].uid][calls[c].itemId] = None
        /\ v # calls[c].uid
        /\ ledger[v][calls[c].itemId] # None

(* C10: a return without a ledger entry fails with the no-record error, a  *)
(* return of more than the entry holds fails with the excess error; stock  *)
(* and ledgers stay as they were.                                          *)
ReturnRejected ==
    [][\A c \in Calls :
         ReadsLedger(c) =>
            LET u == calls'[c].uid
                i == calls'[c].itemId
            IN /\ ledger[u][i] = None =>
                    /\ calls'[c].pc = "done"
                    /\ calls'[c].result = "NoCheckedOutRecord"
                    /\ items' = items /\ ledger' = ledger
               /\ (ledger[u][i] # None /\ calls'[c].qty > LedgerQty(u, i)) =>
                    /\ calls'[c].pc = "done"
                    /\ calls'[c].result = "ExcessReturn"
                    /\ items' = items /\ ledger' = ledger]_vars

(* both rejections happened, the entry is still there *)
BothReturnRejections ==
    \E c, d \in Calls :
        /\ Done(c) /\ calls[c].result = "ExcessReturn"
        /\ Done(d) /\ calls[d].result = "NoCheckedOutRecord"
        /\ ledger[calls[c].uid][calls[c].itemId] # None

(* this step is a step of call c as a return: its entry, a re-run of its   *)
(* read, or its commit (a call on record keeps the arguments it was        *)
(* entered with)                                                           *)
ReturnStep(c) ==
    \/ \E u \in Users, i \in DocIds, q \in QtyInputs :
          /\ q > 0
          /\ audit => (calls'[c].uid = u /\ calls'[c].itemId = i /\ calls'[c].qty = q)
          /\ returnItem(c, u, i, q)
    \/ ReturnGetLedger(c)
    \/ ReturnCommit(c)

(* this step is call c's transaction.get(itemRef): at entry or on a re-run *)
CheckoutReadStep(c) ==
    \/ \E u \in Users, i \in DocIds, q \in QtyInputs :
          /\ q > 0
          /\ audit => (calls'[c].uid = u /\ calls'[c].itemId = i /\ calls'[c].qty = q)
          /\ checkoutItem(c, u, i, q)
    \/ CheckoutGetItem(c)

(* this step is a step of call c as a checkout *)
CheckoutStep(c) ==
    \/ CheckoutReadStep(c)
    \/ CheckoutGetLedger(c)
    \/ CheckoutCommit(c)

(* the user of call c holds an entry for the call's item, which is deleted *)
ReturnOnDeleted(c) ==
    /\ calls'[c].op = "return"
    /\ items[calls'[c].itemId] = None
    /\ ledger[calls'[c].uid][calls'[c].itemId] # None
    /\ ReturnStep(c)

(* C11 as stated: once the item is deleted, every return of a user who     *)
(* holds an entry for it fails with the item-not-found error and leaves    *)
(* the entry as it was.                                                    *)
ReturnOnDeletedNotFound ==
    [][\A c \in Calls :
         ReturnOnDeleted(c) =>
            /\ ledger' = ledger
            /\ calls'[c].pc = "done" => calls'[c].result = "ItemNotFound"]_vars

(* C11: once the item is deleted, no return of a user who holds an entry   *)
(* for it succeeds and the entry stays as it was; a return of a qty the    *)
(* entry covers fails with the item-not-found error (a larger qty fails    *)
(* with the excess error before the item is looked at).                    *)
ReturnOnDeletedFails ==
    [][\A c \in Calls :
         ReturnOnDeleted(c) =>
            /\ ledger' = ledger
            /\ items' = items
            /\ calls'[c].pc = "done" =>
                   /\ calls'[c].result # "ok"
                   /\ calls'[c].qty <= LedgerQty(calls'[c].uid, calls'[c].itemId)
                          => calls'[c].result = "ItemNotFound"
                   /\ calls'[c].qty > LedgerQty(calls'[c].uid, calls'[c].itemId)
                          => calls'[c].result = "ExcessReturn"]_vars

(* a checkout, the delete of the item, then a return that failed on the    *)
(* missing item; the entry is still there                                  *)
OrphanReturnFailed ==
    \E c \in Calls :
        /\ Done(c) /\ calls[c].op = "return" /\ calls[c].result = "ItemNotFound"
        /\ items[calls[c].itemId] = None
        /\ ledger[calls[c].uid][calls[c].itemId] # None

(* C12: a checkout whose item does not exist when its transaction looks    *)
(* (never created, or deleted before the commit) fails with the item-not-  *)
(* found error at its read, never commits, and no ledger entry changes.    *)
CheckoutOnMissing ==
    [][\A c \in Calls :
         (calls'[c].op = "checkout" /\ items[calls'[c].itemId] = None /\ CheckoutStep(c)) =>
            /\ ledger' = ledger
            /\ items' = items
            /\ ~(calls'[c].pc = "done" /\ calls'[c].result = "ok")
            /\ CheckoutReadStep(c) =>
                   /\ calls'[c].pc = "done"
                   /\ calls'[c].result = "ItemNotFound"]_vars

(* one checkout lost its item to a delete between its read and its commit  *)
(* and failed on the re-run, another asked for an id never created         *)
DeletedUnderCheckout ==
    \E c, d \in Calls :
        /\ Done(c) /\ calls[c].op = "checkout" /\ calls[c].result = "ItemNotFound"
        /\ calls[c].attempts = 2
        /\ Done(d) /\ calls[d].op = "checkout" /\ calls[d].result = "ItemNotFound"
        /\ calls[d].itemId # buildItemDocId(<<"A">>, 1)
        /\ \A u \in Users, i \in DocIds : ledger[u][i] = None

(* C17: a delete removes the item whether or not units of it are checked   *)
(* out, and changes no ledger entry and no other item.                     *)
DeleteNoCascade ==
    [][\A id \in DocIds :
         deleteItem(id) =>
            /\ items'[id] = None
            /\ \A j \in AllIds \ {id} : items'[j] = items[j]
            /\ ledger' = ledger]_vars

(* both users hold units of an item that has been deleted *)
OrphanedEntries ==
    \E i \in DocIds :
        /\ items[i] = None
        /\ \A u \in Users : ledger[u][i] # None

(* C13: the suffixes the allocator has returned are pairwise distinct and  *)
(* not below the counter value before the calls, and the counter stands at *)
(* that value plus the number of calls that have returned.                 *)
DistinctSuffixes ==
    /\ \A a, b \in 1..Len(alloc.issued) : a # b => alloc.issued[a] # alloc.issued[b]
    /\ \A a \in 1..Len(alloc.issued) : alloc.issued[a] >= alloc.prior
    /\ CountOr0 = alloc.prior + Len(alloc.issued)

(* two creates were in the allocator together and read the same counter    *)
(* value; the one that lost the commit was re-run; both hold a suffix      *)
ConcurrentAllocations ==
    \E k, j \in Creators :
        /\ k # j
        /\ creators[k].pc = "setDoc" /\ creators[k].attempts = 1
        /\ creators[j].pc = "setDoc" /\ creators[j].attempts = 2
        /\ Len(alloc.issued) = 2

(* C14: the counter never decreases and moves only when an allocation      *)
(* commits, then by exactly one; the first suffix of an absent counter is  *)
(* 1; each suffix issued is larger than every suffix issued before it,     *)
(* whatever became of the creates that got them.                           *)
CounterMonotonic ==
    /\ []((alloc.prior = 0 /\ alloc.issued # <<>>) => alloc.issued[1] = 1)
    /\ [][/\ CountOr0' >= CountOr0
          /\ count' # count =>
                 /\ CountOr0' = CountOr0 + 1
                 /\ alloc'.issued = Append(alloc.issued, CountOr0')
                 /\ \E k \in Creators : CreateAllocCommit(k)
          /\ \A k \in Creators :
                 (CreateAllocCommit(k) /\ creators'[k].pc = "setDoc") => count' # count
          /\ alloc'.issued # alloc.issued =>
                 \A a \in 1..Len(alloc.issued) :
                     alloc.issued[a] < alloc'.issued[Len(alloc'.issued)]]_vars

(* a create lost its item write after it got suffix 1; a later create got  *)
(* the next suffix and wrote its item                                      *)
SuffixNotReissued ==
    \E k, j \in Creators :
        /\ creators[k].pc = "done" /\ creators[k].result = "StoreUnavailable"
        /\ creators[k].next = 1
        /\ creators[j].pc = "done" /\ creators[j].result = "ok"
        /\ creators[j].next = 2
        /\ creators[j].name = creators[k].name

(* C15 as stated: the ids returned by successful creates are pairwise      *)
(* different.                                                              *)
NoDuplicateIds ==
    \A a, b \in 1..Len(alloc.ids) : a # b => alloc.ids[a] # alloc.ids[b]

(* C16: no stored item has a blank name; a create whose name is empty or   *)
(* blank and an update whose patch carries a blank name fail with the      *)
(* name-required error and leave the item store and the counter alone.     *)
NameRequired ==
    /\ [](\A i \in AllIds : items[i] # None => trim(Val(items[i]).name) # <<>>)
    /\ [][\A nm \in {x \in IdNames : trim(x) = <<>>}, oh \in IdOnHandInputs :
             /\ \A k \in StoreCreators :
                    handleSubmit(k, nm, oh) =>
                        /\ creators'[k].pc = "done"
                        /\ creators'[k].result = "NameRequired"
                        /\ items' = items
                        /\ count' = count
             /\ \A id \in AllIds :
                    updateItem(id, Some(nm), oh, None) =>
                        /\ updated' = "NameRequired"
                        /\ items' = items]_vars

(* both rejections happened while an item is stored *)
BlankNamesRejected ==
    /\ updated = "NameRequired"
    /\ \E k \in Creators :
           /\ creators[k].pc = "done"
           /\ creators[k].result = "NameRequired"
           /\ creators[k].name = <<" ">>
    /\ \E i \in AllIds : items[i] # None

(* C18: while the subscription is open, a collection that differs from     *)
(* what the callback got last leads to a call of the callback with the     *)
(* whole collection; every call carries the whole collection; once the     *)
(* unsubscribe handle has been called the callback is not called again.    *)
SubscriptionDelivers ==
    /\ (sub.state = "open" /\ sub.items # Some(Snapshot))
           ~> (sub.state # "open" \/ sub.items = Some(Snapshot))
    /\ [][/\ sub'.n # sub.n =>
                 /\ sub.state = "open"
                 /\ sub'.n = sub.n + 1
                 /\ sub'.items = Some(Snapshot')
          /\ sub.state = "closed" => sub' = sub]_vars

(* the callback got two different collections, the handle was called, and  *)
(* the collection has changed since                                        *)
ChangedAfterUnsubscribe ==
    /\ sub.state = "closed"
    /\ sub.n >= 2
    /\ sub.items # Some(Snapshot)

(* a numeric cell is empty, or parses to a number that is not negative *)
NumericCellOk(cell) ==
    cell = <<>> \/ (parseFloat(cell) # NaN /\ Val(parseFloat(cell)) >= 0)

RowIsValid(row) ==
    /\ trim(row.name) # <<>>
    /\ NumericCellOk(row.on_hand)
    /\ NumericCellOk(row.quantity)
    /\ NumericCellOk(row.retail_price)

InBucket(bucket, n) == \E x \in 1..Len(bucket) : bucket[x].row = n

(* C19: after a parse each data row is in exactly one bucket; it is in the *)
(* valid bucket iff its name is not blank and each numeric cell is empty   *)
(* or parses to a non-negative number, whatever its location text; every   *)
(* entry of the error bucket carries at least one message.                 *)
RowsClassified ==
    csv.phase = "parsed" =>
        /\ Len(csv.validRows) + Len(csv.errorRows) = Len(csv.rows)
        /\ \A n \in 1..Len(csv.rows) :
               /\ InBucket(csv.validRows, n + 1) # InBucket(csv.errorRows, n + 1)
               /\ InBucket(csv.validRows, n + 1) <=> RowIsValid(csv.rows[n])
        /\ \A x \in 1..Len(csv.errorRows) : csv.errorRows[x].errors # <<>>

(* a valid row whose location text does not parse, next to an error row    *)
(* with two messages                                                       *)
UnparsedLocationValid ==
    /\ csv.phase = "parsed"
    /\ \E x \in 1..Len(csv.validRows) :
           /\ csv.rows[csv.validRows[x].row - 1].location = <<Shelf>>
           /\ csv.validRows[x].locationArr = <<>>
    /\ \E x \in 1..Len(csv.errorRows) : Len(csv.errorRows[x].errors) = 2

(* no create of the import failed in the store *)
NoStoreFailure ==
    \A n \in 1..Len(csv.results) : csv.results[n] \notin {"StoreUnavailable", "Aborted"}

Stored == Cardinality({i \in AllIds : items[i] # None})

SentRows == {csv.sent[n] : n \in 1..Len(csv.sent)}

(* C20: an import that met no store failure has called create once for     *)
(* each valid row and for no other row (valid only), or once for each row  *)
(* of the file (all), and that many items were created and reported.       *)
ImportCreatesRows ==
    (csv.phase = "closed" /\ NoStoreFailure) =>
        LET validNos == {n + 1 : n \in {m \in 1..Len(csv.rows) : RowIsValid(csv.rows[m])}}
            allNos == {n + 1 : n \in 1..Len(csv.rows)}
            rowsDue == IF csv.mode = "valid" THEN validNos ELSE allNos
        IN /\ Cardinality(validNos) = csv.V
           /\ Cardinality(allNos) = csv.V + csv.E
           /\ SentRows = rowsDue
           /\ Len(csv.sent) = Cardinality(rowsDue)
           /\ csv.reported = Some(Cardinality(rowsDue))
           /\ Stored = Cardinality(rowsDue)

(* an import of all rows of a file with one valid row and one row without  *)
(* a name: two items, one of them under the placeholder name               *)
ImportedAll ==
    /\ csv.phase = "closed"
    /\ csv.mode = "all"
    /\ csv.V = 1 /\ csv.E = 1
    /\ csv.reported = Some(2)
    /\ \E i \in AllIds : items[i] # None /\ Val(items[i]).name = UntitledItem

(* ---------------------- import: drafts and progress ------------------- *)
(* the create the import is waiting for has written its item *)
ImportedItemId == buildItemDocId(creators[csv.k].name, creators[csv.k].next)

RowCreated ==
    /\ csv.phase = "awaiting"
    /\ creators[csv.k].pc = "done"
    /\ creators[csv.k].result = "ok"

(* the numeric cell is empty, is not a number, or is negative *)
CellUnusable(cell) ==
    cell = <<>> \/ parseFloat(cell) = NaN \/ Val(parseFloat(cell)) < 0

(* C21 as stated: the item created by 'import all' for an error row has no *)
(* on_hand when the row's on_hand cell is empty, is not a number or is     *)
(* negative (the field is dropped, not stored as zero).                    *)
ErrorRowFieldsDropped ==
    (RowCreated /\ Head(csv.queue).draft.on_hand.t = "str") =>
        (CellUnusable(Head(csv.queue).draft.on_hand.v)
            => Val(items[ImportedItemId]).on_hand = None)

(* the outcomes of the rows tried so far that were created *)
OkResults == {n \in 1..Len(csv.results) : csv.results[n] = "ok"}

(* C22: a finished import has called create for every row it was given,    *)
(* whatever the outcome of the rows before; the count it reports is the    *)
(* number of rows whose create succeeded, and that many items are in the   *)
(* store (nothing is rolled back).                                         *)
ImportFailOpen ==
    csv.phase = "closed" =>
        /\ Len(csv.sent) = csv.totalToImport
        /\ Len(csv.results) = csv.totalToImport
        /\ csv.reported = Some(Cardinality(OkResults))
        /\ Stored = Cardinality(OkResults)

(* the create of the first row failed in the store, the second row was     *)
(* created all the same, and one item was reported                         *)
FailedRowSkipped ==
    /\ csv.phase = "closed"
    /\ csv.results = <<"StoreUnavailable", "ok">>
    /\ csv.reported = Some(1)
    /\ Stored = 1

(* C23: while an import runs, the total is the number of rows submitted,   *)
(* 0 <= imported <= total, imported is the number of items the import has  *)
(* created each time a row is done (and at most one behind while a create  *)
(* is awaited), and it changes only by +1, at the return of a create that  *)
(* has written its item.                                                   *)
ImportProgress ==
    /\ [](csv.phase \in {"importing", "awaiting"} =>
            /\ csv.totalToImport = Len(csv.results) + Len(csv.queue)
            /\ csv.totalToImport = IF csv.mode = "valid" THEN csv.V ELSE csv.V + csv.E
            /\ 0 <= csv.imported /\ csv.imported <= csv.totalToImport
            /\ csv.phase = "importing" => csv.imported = Stored
            /\ csv.phase = "awaiting" => (csv.imported <= Stored /\ Stored <= csv.imported + 1))
    /\ [][(csv.phase \in {"importing", "awaiting"} /\ csv'.phase \in {"importing", "awaiting"}
             /\ csv'.imported # csv.imported) =>
                /\ csv'.imported = csv.imported + 1
                /\ RowCreated
                /\ items[ImportedItemId] # None
                /\ csv'.totalToImport = csv.totalToImport]_vars

(* an import of two rows that stands at (1, 2) after a failed row *)
ProgressOneOfTwo ==
    /\ csv.phase = "importing"
    /\ csv.totalToImport = 2
    /\ csv.imported = 1
    /\ Len(csv.results) = 2
    /\ csv.queue = <<>>

(* the row numbers of the list an import was given, in bucket order *)
RowsDue ==
    LET v == ValidBucket(csv.rows, 1)
        e == ErrorBucket(csv.rows, 1)
    IN [n \in 1..Len(v) |-> v[n].row]
       \o (IF csv.mode = "all" THEN [n \in 1..Len(e) |-> e[n].row] ELSE <<>>)

Busy == {k \in Creators : creators[k].pc \notin {"idle", "done"}}

(* C24: an import has at most one create in flight, a create is started    *)
(* only when every earlier one has returned, the rows are sent in bucket   *)
(* order, and the suffixes obtained are strictly increasing.               *)
ImportSerial ==
    /\ Cardinality(Busy) <= 1
    /\ Len(csv.sent) - Len(csv.results) \in {0, 1}
    /\ (Busy # {} \/ csv.phase = "awaiting") => Len(csv.sent) = Len(csv.results) + 1
    /\ csv.phase \in {"importing", "awaiting", "closed"} =>
           csv.sent = SubSeq(RowsDue, 1, Len(csv.sent))
    /\ \A m, n \in 1..Len(alloc.issued) : m < n => alloc.issued[m] < alloc.issued[n]

(* an import of all rows of a file whose error row comes first: the valid  *)
(* row (line 3) was created before the error row (line 2)                  *)
ImportedInBucketOrder ==
    /\ csv.phase = "closed"
    /\ csv.sent = <<3, 2>>
    /\ alloc.issued = <<1, 2>>

(* ------------------------------ locations ----------------------------- *)
(* C25 as stated: the location the picker adds for (cabinet, row, col)     *)
(* decodes to cabinet, row and col again.                                  *)
LocationRoundTrip ==
    [][(handleAdd /\ form' # form) =>
          LET d == parseLocation(form'[Len(form')]) IN
          /\ d # None
          /\ StrictEq(Val(d).cabinet, Num(picker.cabinet))
          /\ StrictEq(Val(d).row, Num(picker.row))
          /\ StrictEq(Val(d).col, Num(picker.col))]_vars

(* the number at the end of a segment such as "cab1" *)
CoordOf(text) == IF DigitSuffix(text) = <<>> THEN 0 - 1 ELSE DigitsValue(DigitSuffix(text), 0)

InGrid(loc) ==
    /\ CoordOf(loc[1]) \in CabinetOptions
    /\ CoordOf(loc[2]) \in RowOptions
    /\ CoordOf(loc[3]) \in ColOptions

(* C26 as stated: no location outside the 5 x 6 x 4 grid is stored on an   *)
(* item (a location out of range is refused when it is encoded).           *)
StoredLocationsInGrid ==
    \A i \in AllIds :
        items[i] # None =>
            \A n \in 1..Len(Val(items[i]).location) : InGrid(Val(items[i]).location[n])

(* C27 as stated: no item's location list contains two identical triples.  *)
NoDuplicateLocations ==
    \A i \in AllIds :
        items[i] # None =>
            \A m, n \in 1..Len(Val(items[i]).location) :
                m < n => Val(items[i]).location[m] # Val(items[i]).location[n]

(* ------------------------------ the panel ------------------------------ *)
(* C28 as stated: a save from the detail panel, where only the name can    *)
(* have been edited, leaves the stored on_hand of the item as it is.       *)
SaveKeepsOnHand ==
    [][(handleSave /\ items[Val(panel).id] # None) =>
          OnHand(Val(panel).id)' = OnHand(Val(panel).id)]_vars

(* --------------------------- frame of a call --------------------------- *)
(* this step is a step of call c of the checkout or the return service *)
TxStep(c) == CheckoutStep(c) \/ ReturnStep(c)

(* C29: a step of a checkout or return by u on i leaves every other item,  *)
(* the name and locations of i, every ledger entry but (u, i) and the      *)
(* sequence counter as they are; a return raises on_hand only by units     *)
(* that u's own entry for i held and that leave that entry.                *)
CallFrame ==
    [][\A c \in Calls :
         TxStep(c) =>
            LET u == calls'[c].uid
                i == calls'[c].itemId
            IN /\ \A j \in AllIds \ {i} : items'[j] = items[j]
               /\ (items[i] = None) <=> (items'[i] = None)
               /\ items[i] # None =>
                     /\ Val(items'[i]).name = Val(items[i]).name
                     /\ Val(items'[i]).location = Val(items[i]).location
               /\ \A v \in Users, j \in DocIds :
                     (v # u \/ j # i) => ledger'[v][j] = ledger[v][j]
               /\ count' = count
               /\ (calls'[c].op = "return" /\ items'[i] # items[i]) =>
                     LET before == OnHandOr0(Val(items[i]))
                         after == OnHandOr0(Val(items'[i]))
                         held == IF ledger[u][i] = None THEN 0 ELSE Val(ledger[u][i])
                         left == IF ledger'[u][i] = None THEN 0 ELSE Val(ledger'[u][i])
                     IN /\ after > before
                        /\ held >= after - before
                        /\ left = held - (after - before)]_vars

(* u2's return of an item was refused for want of an entry of its own      *)
(* while u1 holds units of that item and of the other item                 *)
ForeignReturnRefused ==
    \E c \in Calls, u, v \in Users, i, j \in DocIds :
        /\ Done(c) /\ calls[c].op = "return" /\ calls[c].result = "NoCheckedOutRecord"
        /\ calls[c].uid = u /\ calls[c].itemId = i
        /\ v # u /\ j # i
        /\ ledger[u][i] = None
        /\ ledger[v][i] # None
        /\ ledger[v][j] # None
        /\ OnHand(i) + LedgerQty(v, i) = H0[i]

(* ------------------------ non-positive quantity ------------------------ *)
(* C30: a checkout or return called with qty <= 0 ends at once with the    *)
(* quantity error, having run no transaction, and leaves every item and    *)
(* every ledger entry as they are; no step of a checkout raises on_hand    *)
(* and no step of a return lowers it.                                      *)
BadQtyRejected ==
    [][\A c \in Calls :
         /\ (calls'[c] # calls[c] /\ calls'[c].qty <= 0) =>
               \A u \in Users, i \in DocIds, q \in QtyInputs :
                  (/\ q <= 0
                   /\ calls'[c].uid = u /\ calls'[c].itemId = i /\ calls'[c].qty = q
                   /\ (checkoutItem(c, u, i, q) \/ returnItem(c, u, i, q))) =>
                      /\ calls'[c].pc = "done"
                      /\ calls'[c].result = "BadQty"
                      /\ calls'[c].attempts = 0
                      /\ items' = items
                      /\ ledger' = ledger
         /\ \A j \in DocIds :
               (items'[j] # items[j] /\ items[j] # None /\ items'[j] # None) =>
                  /\ CheckoutStep(c) => OnHandOr0(Val(items'[j])) <= OnHandOr0(Val(items[j]))
                  /\ ReturnStep(c) => OnHandOr0(Val(items'[j])) >= OnHandOr0(Val(items[j]))]_vars

(* a checkout of -1 and a return of 0 have both been refused, with the     *)
(* stock and the ledgers as at the start                                   *)
BadQtyRefusedTwice ==
    \E c, d \in Calls :
        /\ Done(c) /\ calls[c].op = "checkout" /\ calls[c].qty = 0 - 1
        /\ calls[c].result = "BadQty" /\ calls[c].attempts = 0
        /\ Done(d) /\ calls[d].op = "return" /\ calls[d].qty = 0
        /\ calls[d].result = "BadQty" /\ calls[d].attempts = 0
        /\ \A j \in DocIds : items[j] # None => OnHand(j) = H0[j]
        /\ \A u \in Users, j \in DocIds : ledger[u][j] = None

====
